---------------------------- MODULE Spec2Model ----------------------------
(***************************************************************************)
(* QPSK soft demodulator (meteor_demod): the demodulator driver with its   *)
(* worker thread (demod.c), the interpolator that feeds it                  *)
(* (interpolator.c) and the filter engine (filters.c).                      *)
(*                                                                          *)
(* Spec        the caller thread and the worker thread of one demodulator,  *)
(*             over a finite sample source and a byte sink.                 *)
(* FairSpec    Spec with the worker thread scheduled fairly.                *)
(* FaultSpec   Spec with a source and a sink that may fail.                  *)
(* FilterSpec  one filter object driven by filter_new / filter_copy /       *)
(*             filter_fwd.                                                  *)
(*                                                                          *)
(* Numbers.  Samples are float complex in the source; the model keeps only  *)
(* the imaginary part that the Gardner detector reads, as a small integer.  *)
(* resync_offset, a float counted in samples, is kept in fixed point with   *)
(* FP units per sample, so that the timing correction                       *)
(* resync_error*resync_period/2000000.0 is exact for the periods modelled.  *)
(***************************************************************************)
EXTENDS Integers, Sequences, FiniteSets, TLC

\* ------------------------------------------------------------- bounds ---
MaxSrc == 5        \* longest source, in samples
MaxFactor == 2     \* largest interpolation factor interp_mult
MaxOrder == 1      \* largest RRC order
MaxFaults == 1     \* failures injected per run: source read, sink write
ChunkPairs == 2    \* CHUNKSIZE is 2*ChunkPairs-1 or 2*ChunkPairs
SymPairs == 2      \* SYM_CHUNKSIZE is 2*SymPairs
MaxTaps == 3       \* longest filter
MaxCalls == 4      \* filter_fwd calls per filter

\* ---------------------------------------------------------- constants ---
\* One sample of resync_offset; the 2000000.0 of the timing correction.
FP == 2000000
\* Source sample rate (Sample.samplerate of the raw source).
Fs == 4
\* float division by zero: larger than every offset a run can reach.
FloatInf == 1000000000
\* (size_t)-1, what a negative return of src->read becomes.
SIZE_MAX == 2000000000
\* Output flush threshold (demod.h); the spec requires it to be even.
SYM_CHUNKSIZE == 2 * SymPairs

Min(a, b) == IF a < b THEN a ELSE b
Factors == 0..MaxFactor
Orders == 0..MaxOrder
\* Roll-off in tenths: 0 and 11 lie outside (0,1].
Alphas == {0, 5, 11}
SymRates == {0, Fs \div 2, Fs}
ChunkSizes == {2 * ChunkPairs - 1, 2 * ChunkPairs}
SrcLens == (MaxSrc - 1)..MaxSrc
Inputs == {0, 1, 2}
Coeffs == {1, 2}

VARIABLES
  \* --- build and environment
  CHUNKSIZE,        \* input block size (demod.h)
  src_total,        \* samples the source holds in all
  src_left,         \* samples the source has not returned yet
  silent,           \* TRUE: every source sample is zero
  faults_left,      \* failures the source and the sink may still produce
  \* --- Demod fields
  interp_mult,      \* InterpState.factor
  rrc_order,        \* rrc_order given to demod_init
  sym_period,       \* Demod.sym_period, in FP units
  thr_is_running,   \* Demod.thr_is_running
  bytes_out_count,  \* Demod.bytes_out_count
  \* --- interpolator, last interp_read
  req_count,        \* samples asked of the backend
  true_samp_count,  \* what the backend returned, as size_t
  interp_count,     \* Sample.count of the interpolator
  \* --- caller thread
  cpc,              \* "uninit", "inited", "started", "joining", "freed", "crashed"
  last_seen,        \* last value demod_get_bytes_out returned
  \* --- worker thread, demod_thr_run
  wpc,              \* position of the worker
  i, count,         \* loop index and block length
  buf_offset,       \* write offset in out_buf
  out_buf,          \* out_buf[0..buf_offset), as "I"/"Q" tags
  resync_offset,    \* in FP units
  before, mid, cur, \* imaginary parts of the tracked samples
  \* --- sink
  sink_bytes,       \* bytes the sink holds
  last_write,       \* the buffer handed to the most recent fwrite
  \* --- history (observation only)
  h

demodvars == <<CHUNKSIZE, src_total, src_left, silent, faults_left,
               interp_mult, rrc_order,
               sym_period, thr_is_running, bytes_out_count, req_count,
               true_samp_count, interp_count, cpc, last_seen,
               wpc, i, count, buf_offset, out_buf, resync_offset, before,
               mid, cur, sink_bytes, last_write, h>>

VARIABLES
  flt,              \* the Filter object, or "none"
  fhist,            \* inputs given to filter_fwd, oldest first
  fout              \* last value filter_fwd returned

filtervars == <<flt, fhist, fout>>
vars == <<demodvars, filtervars>>


\* ====================================================== sample source ===
\* src->read(src, n) of the raw source: returns min(n, what is left), 0 at
\* end of stream; a failing source returns -1, which interp_read stores in
\* a size_t.  Each outcome is <<value stored in true_samp_count, src_left'>>.
SrcRead(n) ==
  {<<Min(n, src_left), src_left - Min(n, src_left)>>}
    \cup (IF faults_left > 0 THEN {<<SIZE_MAX, src_left>>} ELSE {})

\* ======================================================= interpolator ===
\* true_samp_count = count / factor
BackendRequest(cnt, factor) == cnt \div factor

\* Backend sample that output index k is computed from: src->data[i/factor]
BackendIndex(k, factor) == k \div factor

\* return value of interp_read
InterpReturn(tsc, cnt) == IF tsc = 0 THEN 0 ELSE cnt

\* Output index k of the current block was computed from a sample that the
\* backend returned in this call.
RealSample(k) ==
  /\ true_samp_count # SIZE_MAX
  /\ BackendIndex(k, interp_mult) < true_samp_count

\* Some output of a block of cnt samples read data the backend did not
\* return in that call.
StaleBlock(tsc, cnt, factor) ==
  /\ InterpReturn(tsc, cnt) # 0
  /\ (tsc = SIZE_MAX \/ BackendIndex(cnt - 1, factor) >= tsc)

\* interp_read(self, cnt) with factor # 0.  Sets the interpolator's fields
\* and the source; ret is the value returned.
interp_read(cnt, factor, ret) ==
  \E o \in SrcRead(BackendRequest(cnt, factor)) :
    /\ req_count' = BackendRequest(cnt, factor)
    /\ true_samp_count' = o[1]
    /\ src_left' = o[2]
    /\ interp_count' = cnt
    /\ faults_left' = faults_left - (IF o[1] = SIZE_MAX THEN 1 ELSE 0)
    /\ ret = InterpReturn(o[1], cnt)

\* ============================================================== demod ===
\* ret->sym_period = ret->interp->samplerate/(float)sym_rate, with
\* interp->samplerate = src->samplerate * factor.
SymPeriod(factor, sym_rate) ==
  IF sym_rate = 0 THEN FloatInf ELSE (Fs * factor * FP) \div sym_rate

\* The configurations the spec calls invalid.
ConfigInvalid(factor, order, alpha, sym_rate) ==
  factor = 0 \/ sym_rate = 0 \/ order = 0 \/ ~(0 < alpha /\ alpha <= 10)

\* The process dies (integer division by zero in interp_read).
Crash ==
  /\ cpc' = "crashed"
  /\ UNCHANGED wpc

\* demod_init(src, interp_mult, rrc_order, rrc_alpha, pll_bw, sym_rate)
demod_init(factor, order, alpha, sym_rate) ==
  /\ cpc = "uninit"
  /\ interp_mult' = factor
  /\ rrc_order' = order
  /\ \/ /\ factor # 0
        /\ \E ret \in {0, order * factor} :
             /\ interp_read(order * factor, factor, ret)
             /\ h' = [h EXCEPT
                  !.cfg_invalid = ConfigInvalid(factor, order, alpha, sym_rate),
                  !.dirty = StaleBlock(true_samp_count', order * factor, factor)]
        /\ sym_period' = SymPeriod(factor, sym_rate)
        /\ bytes_out_count' = 0
        /\ thr_is_running' = 1
        /\ cpc' = "inited"
        /\ UNCHANGED wpc
     \/ \* count / factor with factor = 0: the division traps ...
        /\ factor = 0
        /\ Crash
        /\ h' = [h EXCEPT !.cfg_invalid = TRUE]
        /\ UNCHANGED <<req_count, true_samp_count, src_left, interp_count,
                       faults_left, sym_period, bytes_out_count, thr_is_running>>
     \/ \* ... or yields 0, and src->read(src, 0) returns 0
        /\ factor = 0
        /\ req_count' = 0
        /\ true_samp_count' = 0
        /\ interp_count' = 0
        /\ h' = [h EXCEPT !.cfg_invalid = TRUE]
        /\ sym_period' = SymPeriod(factor, sym_rate)
        /\ bytes_out_count' = 0
        /\ thr_is_running' = 1
        /\ cpc' = "inited"
        /\ UNCHANGED <<src_left, faults_left, wpc>>
  /\ UNCHANGED <<CHUNKSIZE, src_total, silent, last_seen, i, count,
                 buf_offset, out_buf, resync_offset, before, mid, cur,
                 sink_bytes, last_write, filtervars>>

DemodInit ==
  \E factor \in Factors, order \in Orders, alpha \in Alphas, sym_rate \in SymRates :
    demod_init(factor, order, alpha, sym_rate)

\* demod_start: pthread_create(demod_thr_run); the worker initialises its
\* locals and opens the sink before its loop.
DemodStart ==
  /\ cpc = "inited"
  /\ cpc' = "started"
  /\ wpc' = "check"
  /\ buf_offset' = 0
  /\ out_buf' = <<>>
  /\ resync_offset' = 0
  /\ before' = 0
  /\ mid' = 0
  /\ cur' = 0
  /\ UNCHANGED <<CHUNKSIZE, src_total,
                 faults_left, src_left, silent, interp_mult, rrc_order,
                 sym_period, thr_is_running, bytes_out_count, req_count,
                 true_samp_count, interp_count, last_seen, i,
                 count, sink_bytes, last_write, h, filtervars>>

\* demod_get_bytes_out: the counter, read under the mutex.
DemodGetBytesOut ==
  /\ cpc \in {"inited", "started"}
  /\ last_seen' = bytes_out_count
  /\ UNCHANGED <<CHUNKSIZE, src_total,
                 faults_left, src_left, silent, interp_mult, rrc_order,
                 sym_period, thr_is_running, bytes_out_count, req_count,
                 true_samp_count, interp_count, cpc, wpc, i,
                 count, buf_offset, out_buf, resync_offset, before, mid, cur,
                 sink_bytes, last_write, h, filtervars>>

\* demod_join, first statement: self->thr_is_running = 0
DemodJoinRequest ==
  /\ cpc = "started"
  /\ cpc' = "joining"
  /\ thr_is_running' = 0
  /\ h' = [h EXCEPT !.stop_req = TRUE]
  /\ UNCHANGED <<CHUNKSIZE, src_total,
                 faults_left, src_left, silent, interp_mult, rrc_order,
                 sym_period, bytes_out_count, req_count, true_samp_count,
                 interp_count, last_seen, wpc, i, count,
                 buf_offset, out_buf, resync_offset, before, mid, cur,
                 sink_bytes, last_write, filtervars>>

\* demod_join, the rest: pthread_join returns once the worker has returned;
\* the stages and the Demod are freed.
DemodJoinReturn ==
  /\ cpc = "joining"
  /\ wpc = "done"
  /\ cpc' = "freed"
  /\ UNCHANGED <<CHUNKSIZE, src_total,
                 faults_left, src_left, silent, interp_mult, rrc_order,
                 sym_period, thr_is_running, bytes_out_count, req_count,
                 true_samp_count, interp_count, last_seen, wpc,
                 i, count, buf_offset, out_buf, resync_offset, before, mid,
                 cur, sink_bytes, last_write, h, filtervars>>

\* ------------------------------------------------- worker: demod_thr_run ---
\* Mutation: the worker does not look at the stop flag.
LoopGuard_ignored(running) == TRUE

\* while (self->thr_is_running && ...): the left operand
LoopGuard(running) == running # 0

\* resync_offset >= resync_period/2 && resync_offset < resync_period/2+1
InMidWindow(off, period) == 2 * off >= period /\ 2 * off < period + 2 * FP

\* resync_offset >= resync_period
AtSymbol(off, period) == off >= period

\* Mutation: the subtraction is iterated until the offset is within one period.
SubPeriod_iterated(off, period) == off % period

\* resync_offset -= resync_period
SubPeriod(off, period) == off - period

\* resync_error = (cimagf(cur) - cimagf(before)) * cimagf(mid)
ResyncError(c, b, m) == (c - b) * m

\* resync_offset += (resync_error*resync_period/2000000.0)
Adjust(off, err, period) == off + (err * period) \div FP

\* Mutation: the flush comes one pair late.
FlushDue_late(off) == off >= SYM_CHUNKSIZE + 1

\* if (buf_offset >= SYM_CHUNKSIZE - 1)
FlushDue(off) == off >= SYM_CHUNKSIZE - 1

\* Mutation: a symbol is counted as one byte.
CountSymbol_one(n) == n + 1

\* self->bytes_out_count += 2
CountSymbol(n) == n + 2

\* Imaginary part of agc_apply(self->agc, self->interp->data[i]): zero when
\* only zero samples of the source have passed the RRC filter.
SampleValues ==
  IF silent /\ ~h.dirty /\ RealSample(i) THEN {0} ELSE {0, 1}

\* fwrite(out_buf, buf_offset, 1, out_fd): the bytes reach the sink, or the
\* write fails and the return value is not looked at.
fwrite ==
  /\ last_write' = SubSeq(out_buf, 1, buf_offset)
  /\ \/ /\ sink_bytes' = sink_bytes + buf_offset
        /\ UNCHANGED <<faults_left, h>>
     \/ /\ faults_left > 0
        /\ buf_offset > 0
        /\ sink_bytes' = sink_bytes
        /\ faults_left' = faults_left - 1
        /\ h' = [h EXCEPT !.sink_faults = @ + 1]

\* while (self->thr_is_running ...
WCheck ==
  /\ wpc = "check"
  /\ IF LoopGuard(thr_is_running)
       THEN wpc' = "read" /\ h' = h
       ELSE wpc' = "flush" /\ h' = [h EXCEPT !.stop_seen = TRUE]
  /\ UNCHANGED <<CHUNKSIZE, src_total,
                 faults_left, src_left, silent, interp_mult, rrc_order,
                 sym_period, thr_is_running, bytes_out_count, req_count,
                 true_samp_count, interp_count, cpc, last_seen,
                 i, count, buf_offset, out_buf, resync_offset, before, mid,
                 cur, sink_bytes, last_write, filtervars>>

\* ... && (count = self->interp->read(self->interp, CHUNKSIZE))) {
WRead ==
  /\ wpc = "read"
  /\ \/ /\ interp_mult # 0
        /\ \E ret \in {0, CHUNKSIZE} :
             /\ interp_read(CHUNKSIZE, interp_mult, ret)
             /\ count' = ret
             /\ wpc' = IF ret = 0 THEN "flush" ELSE "loop"
             /\ i' = IF ret = 0 THEN i ELSE 0
        /\ h' = [h EXCEPT
             !.src_faults = @ + (IF true_samp_count' = SIZE_MAX THEN 1 ELSE 0),
             !.blocks = @ + 1,
             !.blocks_after_stop = @ + (IF h.stop_req THEN 1 ELSE 0),
             !.blocks_after_fault = @ + (IF h.src_faults + h.sink_faults > 0 THEN 1 ELSE 0),
             !.short_read = @ \/ (0 < true_samp_count' /\ true_samp_count' < req_count')]
        /\ UNCHANGED cpc
     \/ \* count / factor with factor = 0 did not trap in demod_init: it
        \* yields 0 here as well
        /\ interp_mult = 0
        /\ req_count' = 0
        /\ true_samp_count' = 0
        /\ interp_count' = CHUNKSIZE
        /\ count' = 0
        /\ wpc' = "flush"
        /\ h' = [h EXCEPT
             !.blocks = @ + 1,
             !.blocks_after_stop = @ + (IF h.stop_req THEN 1 ELSE 0)]
        /\ UNCHANGED <<src_left, faults_left, i, cpc>>
  /\ UNCHANGED <<CHUNKSIZE, src_total, silent, interp_mult, rrc_order,
                 sym_period, thr_is_running, bytes_out_count, last_seen, buf_offset, out_buf, resync_offset, before, mid,
                 cur, sink_bytes, last_write, filtervars>>

\* Symbol resampling: the if / else if on resync_offset, up to
\* resync_offset -= resync_period.
WSample ==
  /\ wpc = "loop"
  /\ IF InMidWindow(resync_offset, sym_period)
       THEN /\ mid' \in SampleValues
            /\ wpc' = "next"
            /\ UNCHANGED <<cur, resync_offset, h>>
       ELSE IF AtSymbol(resync_offset, sym_period)
         THEN /\ cur' \in SampleValues
              /\ resync_offset' = SubPeriod(resync_offset, sym_period)
              /\ h' = [h EXCEPT
                   !.off_pre = resync_offset,
                   !.syms_after_fault = @ + (IF h.src_faults + h.sink_faults > 0 THEN 1 ELSE 0)]
              /\ wpc' = "adjust"
              /\ UNCHANGED mid
         ELSE /\ wpc' = "next"
              /\ UNCHANGED <<mid, cur, resync_offset, h>>
  /\ UNCHANGED <<CHUNKSIZE, src_total,
                 faults_left, src_left, silent, interp_mult, rrc_order,
                 sym_period, thr_is_running, bytes_out_count, req_count,
                 true_samp_count, interp_count, cpc, last_seen,
                 i, count, buf_offset, out_buf, before, sink_bytes, last_write,
                 filtervars>>

\* Gardner timing error, before = cur, costas_resync
WAdjust ==
  /\ wpc = "adjust"
  /\ resync_offset' = Adjust(resync_offset, ResyncError(cur, before, mid), sym_period)
  /\ before' = cur
  /\ wpc' = "appendI"
  /\ UNCHANGED <<CHUNKSIZE, src_total,
                 faults_left, src_left, silent, interp_mult, rrc_order,
                 sym_period, thr_is_running, bytes_out_count, req_count,
                 true_samp_count, interp_count, cpc, last_seen,
                 i, count, buf_offset, out_buf, mid, cur, sink_bytes,
                 last_write, h, filtervars>>

\* out_buf[buf_offset++] = clamp(crealf(cur)/2)
WAppendI ==
  /\ wpc = "appendI"
  /\ out_buf' = Append(SubSeq(out_buf, 1, buf_offset), "I")
  /\ buf_offset' = buf_offset + 1
  /\ h' = [h EXCEPT !.appended = @ + 1]
  /\ wpc' = "appendQ"
  /\ UNCHANGED <<CHUNKSIZE, src_total,
                 faults_left, src_left, silent, interp_mult, rrc_order,
                 sym_period, thr_is_running, bytes_out_count, req_count,
                 true_samp_count, interp_count, cpc, last_seen,
                 i, count, resync_offset, before, mid, cur, sink_bytes,
                 last_write, filtervars>>

\* out_buf[buf_offset++] = clamp(cimagf(cur)/2)
WAppendQ ==
  /\ wpc = "appendQ"
  /\ out_buf' = Append(SubSeq(out_buf, 1, buf_offset), "Q")
  /\ buf_offset' = buf_offset + 1
  /\ h' = [h EXCEPT !.appended = @ + 1]
  /\ wpc' = "flushchk"
  /\ UNCHANGED <<CHUNKSIZE, src_total,
                 faults_left, src_left, silent, interp_mult, rrc_order,
                 sym_period, thr_is_running, bytes_out_count, req_count,
                 true_samp_count, interp_count, cpc, last_seen,
                 i, count, resync_offset, before, mid, cur, sink_bytes,
                 last_write, filtervars>>

\* if (buf_offset >= SYM_CHUNKSIZE - 1) { fwrite(...); buf_offset = 0; }
WFlushChk ==
  /\ wpc = "flushchk"
  /\ IF FlushDue(buf_offset)
       THEN /\ fwrite
            /\ buf_offset' = 0
            /\ out_buf' = <<>>
       ELSE UNCHANGED <<buf_offset, out_buf, sink_bytes, last_write,
                       faults_left, h>>
  /\ wpc' = "count"
  /\ UNCHANGED <<CHUNKSIZE, src_total, src_left, silent, interp_mult, rrc_order,
                 sym_period, thr_is_running, bytes_out_count, req_count,
                 true_samp_count, interp_count, cpc, last_seen,
                 i, count, resync_offset, before, mid, cur, filtervars>>

\* pthread_mutex_lock; self->bytes_out_count += 2; pthread_mutex_unlock
WCount ==
  /\ wpc = "count"
  /\ bytes_out_count' = CountSymbol(bytes_out_count)
  /\ h' = [h EXCEPT !.real_syms = @ + (IF RealSample(i) THEN 1 ELSE 0)]
  /\ wpc' = "next"
  /\ UNCHANGED <<CHUNKSIZE, src_total,
                 faults_left, src_left, silent, interp_mult, rrc_order,
                 sym_period, thr_is_running, req_count, true_samp_count,
                 interp_count, cpc, last_seen, i, count,
                 buf_offset, out_buf, resync_offset, before, mid, cur,
                 sink_bytes, last_write, filtervars>>

\* resync_offset++; i++ and the test i<count
WNext ==
  /\ wpc = "next"
  /\ resync_offset' = resync_offset + FP
  /\ i' = i + 1
  /\ h' = [h EXCEPT !.dirty = @ \/ ~RealSample(i)]
  /\ wpc' = IF i + 1 < count THEN "loop" ELSE "check"
  /\ UNCHANGED <<CHUNKSIZE, src_total,
                 faults_left, src_left, silent, interp_mult, rrc_order,
                 sym_period, thr_is_running, bytes_out_count, req_count,
                 true_samp_count, interp_count, cpc, last_seen,
                 count, buf_offset, out_buf, before, mid, cur, sink_bytes,
                 last_write, filtervars>>

\* Write the remaining bytes; fclose; self->thr_is_running = 0; return
WFlush ==
  /\ wpc = "flush"
  /\ fwrite
  /\ thr_is_running' = 0
  /\ wpc' = "done"
  /\ UNCHANGED <<CHUNKSIZE, src_total, src_left, silent, interp_mult, rrc_order,
                 sym_period, bytes_out_count, req_count, true_samp_count,
                 interp_count, cpc, last_seen, i, count,
                 buf_offset, out_buf, resync_offset, before, mid, cur,
                 filtervars>>

Worker ==
  \/ WCheck \/ WRead \/ WSample \/ WAdjust \/ WAppendI \/ WAppendQ
  \/ WFlushChk \/ WCount \/ WNext \/ WFlush

Caller ==
  \/ DemodInit \/ DemodStart \/ DemodGetBytesOut
  \/ DemodJoinRequest \/ DemodJoinReturn

\* ====================================================== filter engine ===
\* No filter has been created.
NoFilter ==
  [fwd_count |-> 0, back_count |-> 0, fwd_coeff |-> <<>>, back_coeff |-> <<>>,
   mem |-> <<>>]

\* Samples are integers here; the arithmetic of filter_fwd is kept.
Zeros(n) == [k \in 1..n |-> 0]

RECURSIVE Dot(_, _, _, _)
\* sum of a[k]*b[k] for k in lo..hi
Dot(a, b, lo, hi) ==
  IF lo > hi THEN 0 ELSE a[lo] * b[lo] + Dot(a, b, lo + 1, hi)

\* Mutation: memmove moves one entry too few, the last entry is never written.
ShiftIn_short(mem, in) ==
  IF Len(mem) < 2 THEN <<in>>
  ELSE <<in>> \o SubSeq(mem, 1, Len(mem) - 2) \o <<mem[Len(mem)]>>

\* memmove(self->mem+1, self->mem, sizeof(*self->mem) * (self->fwd_count-1));
\* self->mem[0] = in
ShiftIn(mem, in) == <<in>> \o SubSeq(mem, 1, Len(mem) - 1)

\* for (i=1; i<back_count; i++) in -= self->mem[i] * self->back_coeff[i]
\* (mem[i] of the source is mem[i+1] here)
Feedback(f, in) == in - Dot(f.mem, f.back_coeff, 2, f.back_count)

\* filter_new(fwd_count, back_count, fwd_coeff[, back_coeff]), fwd_count > 0:
\* the coefficients are copied, mem comes from calloc.
filter_new(fwd_count, back_count, fwd_coeff, back_coeff) ==
  [fwd_count |-> fwd_count, back_count |-> back_count, fwd_coeff |-> fwd_coeff,
   back_coeff |-> back_coeff, mem |-> Zeros(fwd_count)]

\* filter_copy(orig): the coefficients of orig, mem set to 0.
filter_copy(orig) ==
  [fwd_count |-> orig.fwd_count, back_count |-> orig.back_count,
   fwd_coeff |-> orig.fwd_coeff, back_coeff |-> orig.back_coeff,
   mem |-> Zeros(orig.fwd_count)]

\* filter_fwd(self, in): <<the filter afterwards, the value returned>>
filter_fwd(self, in) ==
  LET mem1 == ShiftIn(self.mem, Feedback(self, in))
  IN  <<[self EXCEPT !.mem = mem1],
        Dot(mem1, self.fwd_coeff, 1, self.fwd_count)>>

FilterNew ==
  /\ flt = NoFilter
  /\ \E fwd_count \in 1..MaxTaps, back_count \in 0..2 :
       /\ back_count <= fwd_count
       /\ \E fwd_coeff \in [1..fwd_count -> Coeffs],
             back_coeff \in [1..back_count -> Coeffs] :
            flt' = filter_new(fwd_count, back_count, fwd_coeff, back_coeff)
  /\ fhist' = <<>>
  /\ UNCHANGED <<fout, demodvars>>

\* The filter is replaced by its copy.
FilterCopy ==
  /\ flt # NoFilter
  /\ fhist # <<>>
  /\ flt' = filter_copy(flt)
  /\ fhist' = <<>>
  /\ UNCHANGED <<fout, demodvars>>

FilterFwd ==
  /\ flt # NoFilter
  /\ Len(fhist) < MaxCalls
  /\ \E in \in Inputs :
       /\ flt' = filter_fwd(flt, in)[1]
       /\ fout' = filter_fwd(flt, in)[2]
       /\ fhist' = Append(fhist, in)
  /\ UNCHANGED demodvars

\* ------------------------------------------------------ specification ---
NoHistory ==
  [cfg_invalid |-> FALSE, src_faults |-> 0, sink_faults |-> 0, dirty |-> FALSE,
   stop_req |-> FALSE, stop_seen |-> FALSE, blocks |-> 0,
   blocks_after_stop |-> 0, short_read |-> FALSE, real_syms |-> 0,
   appended |-> 0, syms_after_fault |-> 0, blocks_after_fault |-> 0,
   off_pre |-> 0]

DemodInitial ==
  /\ interp_mult = 0 /\ rrc_order = 0 /\ sym_period = 0
  /\ thr_is_running = 0 /\ bytes_out_count = 0
  /\ req_count = 0 /\ true_samp_count = 0 /\ interp_count = 0
  /\ cpc = "uninit" /\ last_seen = 0
  /\ wpc = "idle" /\ i = 0 /\ count = 0 /\ buf_offset = 0 /\ out_buf = <<>>
  /\ resync_offset = 0 /\ before = 0 /\ mid = 0 /\ cur = 0
  /\ sink_bytes = 0 /\ last_write = <<>>
  /\ h = NoHistory

FilterInitial ==
  /\ flt = NoFilter /\ fhist = <<>> /\ fout = 0

Environment ==
  /\ CHUNKSIZE \in ChunkSizes
  /\ src_total \in SrcLens
  /\ src_left = src_total
  /\ silent \in BOOLEAN

\* A source and a sink that do not fail.
Init ==
  /\ Environment
  /\ faults_left = 0
  /\ DemodInitial
  /\ FilterInitial

\* A source and a sink that may fail, MaxFaults times in all.
FaultInit ==
  /\ Environment
  /\ faults_left = MaxFaults
  /\ DemodInitial
  /\ FilterInitial

Next == Caller \/ Worker

Spec == Init /\ [][Next]_vars

FairSpec == Spec /\ WF_vars(Worker)

FaultSpec == FaultInit /\ [][Next]_vars

\* The filter engine alone.
FilterInit ==
  /\ CHUNKSIZE = 2 * ChunkPairs
  /\ src_total = MaxSrc
  /\ src_left = MaxSrc
  /\ silent = TRUE
  /\ faults_left = 0
  /\ DemodInitial
  /\ FilterInitial

FilterNext == FilterNew \/ FilterCopy \/ FilterFwd

FilterSpec == FilterInit /\ [][FilterNext]_vars


\* ============================================================= claims ===
PairsOnly(buf) ==
  \A k \in 1..Len(buf) : buf[k] = (IF k % 2 = 1 THEN "I" ELSE "Q")

\* Bytes of the symbol being emitted that are already in out_buf but not yet
\* counted in bytes_out_count.
Uncounted ==
  CASE wpc = "appendQ" -> 1
    [] wpc \in {"flushchk", "count"} -> 2
    [] OTHER -> 0

\* C1: bytes_out_count changes only in the worker's counting step, by exactly
\* 2, after exactly two bytes (I then Q) of that symbol were appended to the
\* output buffer; every value demod_get_bytes_out returns is even and no
\* smaller than the one it returned before.
C1_BytesOutByTwo ==
  /\ [](/\ bytes_out_count % 2 = 0
        /\ last_seen % 2 = 0
        /\ h.appended = bytes_out_count + Uncounted
        /\ PairsOnly(SubSeq(out_buf, 1, buf_offset)))
  /\ [][/\ last_seen' >= last_seen
        /\ bytes_out_count' # bytes_out_count =>
             /\ wpc = "count"
             /\ bytes_out_count' = bytes_out_count + 2
             /\ h.appended = bytes_out_count']_vars

C1_Witness ==
  /\ cpc = "started"
  /\ last_seen = 4
  /\ bytes_out_count = 6
  /\ wpc = "appendQ"

\* C2: when the source ended in the middle of a block and the worker has
\* returned, running is cleared, and bytes_out_count is twice the number of
\* symbols taken from samples the source produced and equals the bytes in
\* the sink.
C2_EofMidBlock ==
  (/\ wpc = "done" /\ h.short_read /\ ~h.stop_req
   /\ ~h.cfg_invalid /\ sym_period >= 2 * FP) =>
     /\ thr_is_running = 0
     /\ bytes_out_count = 2 * h.real_syms
     /\ bytes_out_count = sink_bytes

\* C3: after demod_join has cleared the flag the worker reads at most one
\* more block; once it has seen the cleared flag it reads no block and emits
\* nothing; it returns, and then every appended byte is in the sink and
\* bytes_out_count is the number of bytes in the sink.
C3_StopFlushes ==
  /\ [](/\ h.blocks_after_stop <= 1
        /\ h.stop_seen => (h.stop_req /\ wpc \in {"flush", "done"})
        /\ (wpc = "done" /\ h.stop_req) =>
             (bytes_out_count = sink_bytes /\ h.appended = sink_bytes))
  /\ [][h.stop_seen =>
          (src_left' = src_left /\ bytes_out_count' = bytes_out_count
             /\ h.blocks' = h.blocks)]_vars
  /\ (h.stop_req ~> wpc = "done")

C3_Witness ==
  /\ cpc = "freed"
  /\ h.stop_seen
  /\ h.blocks_after_stop = 1
  /\ src_left > 0
  /\ sink_bytes > SYM_CHUNKSIZE
  /\ Len(last_write) = 2

\* C4: every buffer the worker hands to fwrite holds whole I/Q pairs, at most
\* SYM_CHUNKSIZE bytes, and buf_offset never exceeds SYM_CHUNKSIZE.
C4_WritesWholePairs ==
  /\ buf_offset <= SYM_CHUNKSIZE
  /\ Len(last_write) % 2 = 0
  /\ Len(last_write) <= SYM_CHUNKSIZE
  /\ PairsOnly(last_write)

C4_Witness ==
  /\ wpc = "flushchk"
  /\ buf_offset = SYM_CHUNKSIZE
  /\ Len(last_write) = SYM_CHUNKSIZE
  /\ sink_bytes = SYM_CHUNKSIZE

\* C5: an interpolator read of interp_count output samples that found data
\* asked the backend for ceil(interp_count/factor) samples, and its last
\* output index was computed from a sample the backend returned in that call.
C5_CeilRequest ==
  (~h.cfg_invalid /\ interp_count > 0 /\ true_samp_count > 0) =>
     /\ req_count = (interp_count + interp_mult - 1) \div interp_mult
     /\ BackendIndex(interp_count - 1, interp_mult) < true_samp_count

\* Interpolated samples the source yields after the warm-up: N*L - order*L,
\* in FP units.
SilentSamples == (src_total - rrc_order) * interp_mult * FP

\* C6: for an all-zero source and a valid configuration, a worker that ran to
\* end of stream leaves bytes_out_count = 2*floor((N*L - order*L)/period),
\* whatever CHUNKSIZE is.  Stated for periods of two samples or more and for
\* totals that are not a whole number of periods.
C6_SilentTotal ==
  (/\ wpc = "done" /\ silent /\ ~h.cfg_invalid /\ ~h.stop_req
   /\ src_total >= rrc_order
   /\ sym_period >= 2 * FP
   /\ SilentSamples % sym_period # 0) =>
     bytes_out_count = 2 * (SilentSamples \div sym_period)

\* C7: a demodulator made from an invalid configuration is not marked
\* running and no worker runs for it.  Stated for the invalid configurations
\* whose interpolation factor is not 0 (those with factor 0 divide by zero).
C7_InvalidConfigRejected ==
  (h.cfg_invalid /\ interp_mult > 0) => (thr_is_running = 0 /\ wpc = "idle")

\* C8: after a failed source read or a failed sink write the worker takes no
\* further symbol and reads no further block.
C8_FaultStopsWorker ==
  ~h.cfg_invalid => (h.syms_after_fault = 0 /\ h.blocks_after_fault = 0)

\* C9 as stated: right after the subtraction, before the timing correction,
\* 0 <= resync_offset < resync_period.
C9_WithinOnePeriod ==
  (wpc = "adjust" /\ ~h.cfg_invalid) =>
     (0 <= resync_offset /\ resync_offset < sym_period)

\* C9 amended: the period is subtracted once; right after the subtraction
\* resync_offset is the offset before minus one period, it is not negative,
\* and it is below one period exactly when the offset before was below two.
C9_SubtractedOnce ==
  wpc = "adjust" =>
     /\ resync_offset = h.off_pre - sym_period
     /\ resync_offset >= 0
     /\ (resync_offset < sym_period) <=> (h.off_pre < 2 * sym_period)

C9_Witness ==
  /\ wpc = "adjust"
  /\ ~h.cfg_invalid
  /\ h.off_pre >= 2 * sym_period

AllNonZero(seq) == \A k \in 1..Len(seq) : seq[k] # 0

NonZeroEntries(seq) == Cardinality({k \in 1..Len(seq) : seq[k] # 0})

\* C10: for a FIR filter of M taps whose delay line started from zero (after
\* filter_new or filter_copy), after k calls of filter_fwd mem[j] is the
\* (j+1)-th most recent input for j < min(k, M) and 0 beyond, so with non-zero
\* inputs exactly min(k, M) entries are non-zero; filter_fwd and filter_copy
\* leave the coefficient arrays and the lengths as they were.
C10_DelayLine ==
  /\ []((flt # NoFilter /\ flt.back_count = 0) =>
          LET M == flt.fwd_count
              k == Len(fhist)
          IN  /\ Len(flt.mem) = M
              /\ Len(flt.fwd_coeff) = M
              /\ \A j \in 1..M :
                   flt.mem[j] = (IF j <= Min(k, M) THEN fhist[k - j + 1] ELSE 0)
              /\ AllNonZero(fhist) => NonZeroEntries(flt.mem) = Min(k, M))
  /\ [][flt # NoFilter =>
          /\ flt'.fwd_coeff = flt.fwd_coeff
          /\ flt'.back_coeff = flt.back_coeff
          /\ flt'.fwd_count = flt.fwd_count
          /\ flt'.back_count = flt.back_count]_vars

C10_Witness ==
  /\ flt.back_count = 0
  /\ flt.fwd_count = 2
  /\ fhist = <<1, 2, 1>>
  /\ flt.mem = <<1, 2>>

=============================================================================
